---- MODULE Spec2Model ----
(***************************************************************************)
(* Model of the SourcePawn lexer: the stateful scanner SourcepawnLexer     *)
(* (src/src/lexer.rs), the Symbol accessors text() / inline_text() /       *)
(* to_int(), and the token taxonomy (src/src/token_kind.rs).               *)
(*                                                                         *)
(* The raw pattern matcher (crate::token::Token, generated by logos) is    *)
(* not among the sources; it is modelled from the specification's          *)
(* section 4.1 and from the inputs and outputs of src/tests and            *)
(* src/src/main.rs.                                                        *)
(*                                                                         *)
(* Input text is a sequence of one-character strings; all characters of    *)
(* the model are ASCII, so a byte offset is a character offset.  Offsets   *)
(* are 0-based as in Rust: the character at offset o of s is s[o + 1].     *)
(***************************************************************************)
EXTENDS Integers, Sequences, FiniteSets, TLC

VARIABLES
    source,           \* lexer.source(): the input buffer
    span,             \* lexer.span(): [start, end) of the last raw match
    line_number,      \* SourcepawnLexer.line_number
    line_span_start,  \* SourcepawnLexer.line_span_start
    in_preprocessor,  \* SourcepawnLexer.in_preprocessor (the raw field)
    prev_range,       \* SourcepawnLexer.prev_range: None or a Range
    eof,              \* SourcepawnLexer.eof
    ret,              \* what the last call of next() returned
    out,              \* history: every Some(symbol) returned so far
    arg,              \* the receiver of a Symbol accessor call
    res               \* what the accessor call returned

vars == << source, span, line_number, line_span_start, in_preprocessor,
           prev_range, eof, ret, out, arg, res >>

lexer_vars == << source, span, line_number, line_span_start, in_preprocessor,
                 prev_range, eof, ret, out >>

-----------------------------------------------------------------------------
(* Characters *)

LF == "\n"
CR == "\r"
BS == "\\"
QUOTE == "\""
NUL == "NUL"   \* stands for the character U+0000
CharMax == "U+10FFFF"   \* stands for char::MAX, the character U+10FFFF

Whitespace == {" ", "\t"}
Digits == {"0", "1", "2", "3", "4", "5", "6", "7", "8", "9"}
Letters == {"a", "b", "c", "d", "e", "f", "g", "i", "m", "n", "o", "p", "r",
            "x", "A", "B", "C", "D", "E", "F", "O"}

None == [none |-> TRUE]
NotCalled == [not_called |-> TRUE]

\* u32 subtraction.  A release build wraps a negative difference d to 2^32 + d,
\* which is beyond the integers of the model checker: the negative d stands for it.
SubU32(a, b) == a - b

RECURSIVE Concat(_)
Concat(ss) == IF ss = << >> THEN << >> ELSE Head(ss) \o Concat(Tail(ss))

HasPrefix(s, o, p) ==
    /\ o + Len(p) <= Len(s)
    /\ \A i \in 1..Len(p) : s[o + i] = p[i]

Slice(s, a, b) == SubSeq(s, a + 1, b)

-----------------------------------------------------------------------------
(* The raw pattern matcher *)

KwDefine == << "#", "d", "e", "f", "i", "n", "e" >>
KwPragma == << "#", "p", "r", "a", "g", "m", "a" >>
KwInclude == << "#", "i", "n", "c", "l", "u", "d", "e" >>
KwTryinclude == << "#", "t", "r", "y", "i", "n", "c", "l", "u", "d", "e" >>
KwLine == << "_", "_", "L", "I", "N", "E", "_", "_" >>

\* the keywords of the 14 directives that take ordinary trailing tokens
OrdinaryKeywords ==
    [ MDefine |-> KwDefine,
      MDeprecate |-> << "#", "d", "e", "p", "r", "e", "c", "a", "t", "e" >>,
      MIf |-> << "#", "i", "f" >>,
      MElse |-> << "#", "e", "l", "s", "e" >>,
      MElseif |-> << "#", "e", "l", "s", "e", "i", "f" >>,
      MEndinput |-> << "#", "e", "n", "d", "i", "n", "p", "u", "t" >>,
      MFile |-> << "#", "f", "i", "l", "e" >>,
      MOptionalNewdecls |->
          << "#", "o", "p", "t", "i", "o", "n", "a", "l", "_", "n", "e", "w", "d", "e", "c", "l", "s" >>,
      MOptionalSemi |->
          << "#", "o", "p", "t", "i", "o", "n", "a", "l", "_", "s", "e", "m", "i", "c", "o", "l", "o", "n", "s" >>,
      MRequireNewdecls |->
          << "#", "r", "e", "q", "u", "i", "r", "e", "_", "n", "e", "w", "d", "e", "c", "l", "s" >>,
      MRequireSemi |->
          << "#", "r", "e", "q", "u", "i", "r", "e", "_", "s", "e", "m", "i", "c", "o", "l", "o", "n", "s" >>,
      MUndef |-> << "#", "u", "n", "d", "e", "f" >>,
      MEndif |-> << "#", "e", "n", "d", "i", "f" >>,
      MLeaving |-> << "#", "l", "e", "a", "v", "i", "n", "g" >> ]

PayloadKeywords ==
    [ MPragma |-> KwPragma, MInclude |-> KwInclude, MTryinclude |-> KwTryinclude ]

\* the directive keywords of the table kws that start at offset o, and the
\* longest of them (the matcher takes the longest match)
KeywordsAt(s, o, kws) == { d \in DOMAIN kws : HasPrefix(s, o, kws[d]) }
LongestKeyword(ds, kws) == CHOOSE d \in ds : \A e \in ds : Len(kws[e]) <= Len(kws[d])

RECURSIVE RunEnd(_, _, _)
RunEnd(s, o, cls) ==
    IF o < Len(s) /\ s[o + 1] \in cls THEN RunEnd(s, o + 1, cls) ELSE o

\* offset just after the closing quote of a string opened before o, or -1
RECURSIVE StringEnd(_, _)
StringEnd(s, o) ==
    IF o >= Len(s) THEN -1
    ELSE IF s[o + 1] = QUOTE THEN o + 1
    ELSE IF s[o + 1] = BS
         THEN (IF o + 1 < Len(s) THEN StringEnd(s, o + 2) ELSE -1)
    ELSE StringEnd(s, o + 1)

\* offset just after the first "*/" at or after o, or -1
RECURSIVE CommentEnd(_, _)
CommentEnd(s, o) ==
    IF o + 2 > Len(s) THEN -1
    ELSE IF s[o + 1] = "*" /\ s[o + 2] = "/" THEN o + 2
    ELSE CommentEnd(s, o + 1)

\* end of a line comment: the offset of the line break that follows it
RECURSIVE LineEnd(_, _)
LineEnd(s, o) ==
    IF o >= Len(s) \/ s[o + 1] \in {LF, CR} THEN o ELSE LineEnd(s, o + 1)

\* end of the payload of #pragma / #include / #tryinclude: the offset of the
\* first line break that no backslash escapes
RECURSIVE PayloadEnd(_, _)
PayloadEnd(s, o) ==
    IF o >= Len(s) THEN o
    ELSE IF HasPrefix(s, o, << BS, LF >>) THEN PayloadEnd(s, o + 2)
    ELSE IF HasPrefix(s, o, << BS, CR, LF >>) THEN PayloadEnd(s, o + 3)
    ELSE IF s[o + 1] = LF \/ HasPrefix(s, o, << CR, LF >>) THEN o
    ELSE PayloadEnd(s, o + 1)

\* the raw token that starts at offset o < Len(s), o not on whitespace
MatchAt(s, o) ==
    LET c == s[o + 1]
        tok(t, e) == [token |-> t, start |-> o, end |-> e]
    IN  CASE c = LF -> tok("Newline", o + 1)
          [] c = CR -> IF HasPrefix(s, o, << CR, LF >>)
                       THEN tok("Newline", o + 2)
                       ELSE tok("Unknown", o + 1)
          [] c = BS -> IF HasPrefix(s, o, << BS, LF >>)
                       THEN tok("LineContinuation", o + 2)
                       ELSE IF HasPrefix(s, o, << BS, CR, LF >>)
                       THEN tok("LineContinuation", o + 3)
                       ELSE tok("Unknown", o + 1)
          [] c \in Letters -> tok("Identifier", RunEnd(s, o, Letters \cup Digits \cup {"_"}))
          [] c \in Digits -> tok("IntegerLiteral", RunEnd(s, o, Digits \cup {"_"}))
          [] c = QUOTE -> IF StringEnd(s, o + 1) >= 0
                          THEN tok("StringLiteral", StringEnd(s, o + 1))
                          ELSE tok("Unknown", o + 1)
          [] c = "/" -> IF HasPrefix(s, o, << "/", "*" >>) /\ CommentEnd(s, o + 2) >= 0
                        THEN tok("BlockComment", CommentEnd(s, o + 2))
                        ELSE IF HasPrefix(s, o, << "/", "/" >>)
                        THEN tok("LineComment", LineEnd(s, o))
                        ELSE tok("Slash", o + 1)
          [] c = "*" -> tok("Star", o + 1)
          [] c = "+" -> tok("Plus", o + 1)
          [] c = "#" -> IF KeywordsAt(s, o, OrdinaryKeywords) # {}
                        THEN LET d == LongestKeyword(KeywordsAt(s, o, OrdinaryKeywords),
                                                     OrdinaryKeywords)
                             IN  tok(d, o + Len(OrdinaryKeywords[d]))
                        ELSE IF KeywordsAt(s, o, PayloadKeywords) # {}
                        THEN LET d == LongestKeyword(KeywordsAt(s, o, PayloadKeywords),
                                                     PayloadKeywords)
                             IN  tok(d, PayloadEnd(s, o + Len(PayloadKeywords[d])))
                        ELSE tok("Stringize", o + 1)
          [] c = "_" -> IF HasPrefix(s, o, KwLine) THEN tok("MLine", o + Len(KwLine))
                        ELSE tok("Underscore", o + 1)
          [] OTHER -> tok("Unknown", o + 1)

\* Lexer<Token>::next(): skip whitespace from the end of the last match, then
\* match; None at the end of the input
LexerNext(s, o) ==
    LET p == RunEnd(s, o, Whitespace)
    IN  IF p >= Len(s) THEN None ELSE MatchAt(s, p)

-----------------------------------------------------------------------------
(* The token taxonomy *)

Some(x) == [some |-> x]
\* the outcome of a call that panics (unwrap() of None, unimplemented!()); a
\* sequence, so that it can be compared with a text
Panic == << "panic!" >>
\* the same outcome for a call that returns an Option; a record, so that it can
\* be compared with one
Panicked == [panicked |-> TRUE]

LiteralTokens == {"IntegerLiteral", "HexLiteral", "BinaryLiteral", "OctodecimalLiteral",
                  "StringLiteral", "CharLiteral", "FloatLiteral"}
CommentTokens == {"LineComment", "BlockComment"}
OperatorTokens == {"Slash", "Star", "Plus", "Stringize"}
PayloadDirectives == {"MPragma", "MInclude", "MTryinclude"}
OrdinaryDirectives == {"MDefine", "MDeprecate", "MIf", "MElse", "MElseif", "MEndinput",
                       "MFile", "MOptionalNewdecls", "MOptionalSemi", "MRequireNewdecls",
                       "MRequireSemi", "MUndef", "MEndif", "MLeaving"}
PreprocTokens == PayloadDirectives \cup OrdinaryDirectives \cup {"MLine"}

\* impl TryFrom<Token> for TokenKind
TryFrom(token) ==
    CASE token \in LiteralTokens -> [kind |-> "Literal", sub |-> token]
      [] token \in CommentTokens -> [kind |-> "Comment", sub |-> token]
      [] token \in OperatorTokens -> [kind |-> "Operator", sub |-> token]
      [] token \in PreprocTokens -> [kind |-> "PreprocDir", sub |-> token]
      [] OTHER -> [kind |-> token, sub |-> ""]

Eof == [kind |-> "Eof", sub |-> ""]

\* Operator::text, for the operators the matcher of the model yields
OperatorText(op) ==
    CASE op = "Slash" -> << "/" >>
      [] op = "Star" -> << "*" >>
      [] op = "Plus" -> << "+" >>
      [] op = "Stringize" -> << "#" >>

\* PreprocDir::text (unimplemented!() for #pragma)
PreprocDirText(dir) ==
    CASE dir = "MDefine" -> KwDefine
      [] dir = "MDeprecate" -> << "#", "d", "e", "p", "r", "e", "c", "a", "t", "e" >>
      [] dir = "MElse" -> << "#", "e", "l", "s", "e" >>
      [] dir = "MElseif" -> << "#", "e", "l", "s", "e", "i", "f" >>
      [] dir = "MEndif" -> << "#", "e", "n", "d", "i", "f" >>
      [] dir = "MEndinput" -> << "#", "e", "n", "d", "i", "n", "p", "u", "t" >>
      [] dir = "MFile" -> << "#", "f", "i", "l", "e" >>
      [] dir = "MIf" -> << "#", "i", "f" >>
      [] dir = "MInclude" -> << "#", "i", "n", "c", "l", "u", "d", "e" >>
      [] dir = "MLeaving" -> << "#", "l", "e", "a", "v", "i", "n", "g" >>
      [] dir = "MLine" -> << "_", "_", "L", "I", "N", "E", "_", "_" >>
      [] dir = "MOptionalNewdecls" ->
             << "#", "o", "p", "t", "i", "o", "n", "a", "l", "_", "n", "e", "w", "d", "e", "c", "l", "s" >>
      [] dir = "MOptionalSemi" ->
             << "#", "o", "p", "t", "i", "o", "n", "a", "l", "_", "s", "e", "m", "i", "c", "o", "l", "o", "n", "s" >>
      [] dir = "MPragma" -> Panic
      [] dir = "MRequireNewdecls" ->
             << "#", "r", "e", "q", "u", "i", "r", "e", "_", "n", "e", "w", "d", "e", "c", "l", "s" >>
      [] dir = "MRequireSemi" ->
             << "#", "r", "e", "q", "u", "i", "r", "e", "_", "s", "e", "m", "i", "c", "o", "l", "o", "n", "s" >>
      [] dir = "MTryinclude" ->
             << "#", "t", "r", "y", "_", "i", "n", "c", "l", "u", "d", "e" >>
      [] dir = "MUndef" -> << "#", "u", "n", "d", "e", "f" >>

-----------------------------------------------------------------------------
(* Symbol *)

Pos(l, c) == [line |-> l, character |-> c]
Range(s, e) == [start |-> s, end |-> e]

Unwrap(t) == IF t = None THEN Panic ELSE t.some

\* Symbol::text (the arms of the reserved words and of the punctuation, which
\* the matcher of the model does not yield, are left out)
text(sym) ==
    LET k == sym.token_kind
    IN  CASE k.kind = "Operator" -> OperatorText(k.sub)
          [] k.kind = "PreprocDir" ->
                IF k.sub \in PayloadDirectives THEN Unwrap(sym.text)
                ELSE PreprocDirText(k.sub)
          [] k.kind \in {"Comment", "Literal", "Identifier"} -> Unwrap(sym.text)
          [] k.kind = "Newline" -> << LF >>
          [] k.kind = "LineContinuation" -> << BS, LF >>
          [] k.kind = "Unknown" -> << >>
          [] k.kind = "Underscore" -> << "_" >>
          [] k.kind = "Eof" -> << NUL >>

-----------------------------------------------------------------------------
(* SourcepawnLexer *)

\* RE1 = \n : find_iter, the matches in order
RECURSIVE FindRE1(_, _)
FindRE1(t, o) ==
    IF o >= Len(t) THEN << >>
    ELSE IF t[o + 1] = LF
         THEN << [start |-> o, end |-> o + 1] >> \o FindRE1(t, o + 1)
    ELSE FindRE1(t, o + 1)

\* RE2 = \\\r?\n : find_iter, the matches in order
RECURSIVE FindRE2(_, _)
FindRE2(t, o) ==
    IF o >= Len(t) THEN << >>
    ELSE IF HasPrefix(t, o, << BS, LF >>)
         THEN << [start |-> o, end |-> o + 2] >> \o FindRE2(t, o + 2)
    ELSE IF HasPrefix(t, o, << BS, CR, LF >>)
         THEN << [start |-> o, end |-> o + 3] >> \o FindRE2(t, o + 3)
    ELSE FindRE2(t, o + 1)

Last(s) == s[Len(s)]

InPreprocessor_raw_field(flag, e) == flag

\* SourcepawnLexer::in_preprocessor
InPreprocessor(flag, e) == flag /\ ~e

delta_from_start(range, prev) ==
    IF prev # None
    THEN [line |-> range.start.line - prev.some.start.line,
          col |-> range.start.character - prev.some.start.character]
    ELSE [line |-> 0, col |-> 0]

delta_from_end(range, prev) ==
    IF prev # None
    THEN [line |-> range.end.line - prev.some.end.line,
          col |-> range.end.character - prev.some.end.character]
    ELSE [line |-> 0, col |-> 0]

\* SourcepawnLexer::delta (the value returned; prev_range is set by the caller)
delta(range, prev) ==
    IF prev # None
    THEN [line |-> range.start.line - prev.some.end.line,
          col |-> range.start.character - prev.some.end.character]
    ELSE [line |-> 0, col |-> 0]

CapturesText_no_directives(token) ==
    token \in {"Identifier", "IntegerLiteral", "HexLiteral", "BinaryLiteral",
               "OctodecimalLiteral", "StringLiteral", "CharLiteral", "FloatLiteral",
               "BlockComment", "LineComment"}

CapturesText_always(token) == TRUE

\* next(): which raw tokens keep their slice as text
CapturesText(token) ==
    token \in {"Identifier", "IntegerLiteral", "HexLiteral", "BinaryLiteral",
               "OctodecimalLiteral", "StringLiteral", "CharLiteral", "FloatLiteral",
               "BlockComment", "LineComment", "MPragma", "MInclude", "MTryinclude"}

MultiLineArm_keeps_flag(token, t, sp, st) ==
    LET pp == IF token \in PayloadDirectives THEN TRUE ELSE st.in_preprocessor
        line_breaks == FindRE1(t, 0)
        line_continuations == FindRE2(t, 0)
    IN  IF line_continuations # << >>
        THEN [in_preprocessor |-> pp,
              line_number |-> st.line_number + Len(line_breaks),
              line_span_start |-> sp.start + Last(line_continuations).end]
        ELSE IF line_breaks # << >>
        THEN [in_preprocessor |-> pp,
              line_number |-> st.line_number + Len(line_breaks),
              line_span_start |-> sp.start + Last(line_breaks).start]
        ELSE [st EXCEPT !.in_preprocessor = pp]

MultiLineArm_no_directive_entry(token, t, sp, st) ==
    LET line_breaks == FindRE1(t, 0)
        line_continuations == FindRE2(t, 0)
    IN  IF line_continuations # << >>
        THEN [in_preprocessor |-> st.in_preprocessor,
              line_number |-> st.line_number + Len(line_breaks),
              line_span_start |-> sp.start + Last(line_continuations).end]
        ELSE IF line_breaks # << >>
        THEN [in_preprocessor |-> FALSE,
              line_number |-> st.line_number + Len(line_breaks),
              line_span_start |-> sp.start + Last(line_breaks).start]
        ELSE st

MultiLineArm_continuation_clears(token, t, sp, st) ==
    LET pp == IF token \in PayloadDirectives THEN TRUE ELSE st.in_preprocessor
        line_breaks == FindRE1(t, 0)
        line_continuations == FindRE2(t, 0)
    IN  IF line_continuations # << >>
        THEN [in_preprocessor |-> FALSE,
              line_number |-> st.line_number + Len(line_breaks),
              line_span_start |-> sp.start + Last(line_continuations).end]
        ELSE IF line_breaks # << >>
        THEN [in_preprocessor |-> FALSE,
              line_number |-> st.line_number + Len(line_breaks),
              line_span_start |-> sp.start + Last(line_breaks).start]
        ELSE [st EXCEPT !.in_preprocessor = pp]

MultiLineArm_always_enters(token, t, sp, st) ==
    LET line_breaks == FindRE1(t, 0)
        line_continuations == FindRE2(t, 0)
    IN  IF line_continuations # << >>
        THEN [in_preprocessor |-> TRUE,
              line_number |-> st.line_number + Len(line_breaks),
              line_span_start |-> sp.start + Last(line_continuations).end]
        ELSE IF line_breaks # << >>
        THEN [in_preprocessor |-> FALSE,
              line_number |-> st.line_number + Len(line_breaks),
              line_span_start |-> sp.start + Last(line_breaks).start]
        ELSE [st EXCEPT !.in_preprocessor = TRUE]

MultiLineArm_keeps_line(token, t, sp, st) ==
    LET pp == IF token \in PayloadDirectives THEN TRUE ELSE st.in_preprocessor
        line_breaks == FindRE1(t, 0)
        line_continuations == FindRE2(t, 0)
    IN  IF line_continuations # << >>
        THEN [in_preprocessor |-> pp,
              line_number |-> st.line_number,
              line_span_start |-> sp.start + Last(line_continuations).end]
        ELSE IF line_breaks # << >>
        THEN [in_preprocessor |-> FALSE,
              line_number |-> st.line_number,
              line_span_start |-> sp.start + Last(line_breaks).start]
        ELSE [st EXCEPT !.in_preprocessor = pp]

MultiLineArm_from_break_end(token, t, sp, st) ==
    LET pp == IF token \in PayloadDirectives THEN TRUE ELSE st.in_preprocessor
        line_breaks == FindRE1(t, 0)
        line_continuations == FindRE2(t, 0)
    IN  IF line_continuations # << >>
        THEN [in_preprocessor |-> pp,
              line_number |-> st.line_number + Len(line_breaks),
              line_span_start |-> sp.start + Last(line_continuations).end]
        ELSE IF line_breaks # << >>
        THEN [in_preprocessor |-> FALSE,
              line_number |-> st.line_number + Len(line_breaks),
              line_span_start |-> sp.start + Last(line_breaks).end]
        ELSE [st EXCEPT !.in_preprocessor = pp]

\* next(): the arm of String literals, Block comments and payload directives.
\* st is the record of the scanner's flag and line fields, sp the span, t the slice
MultiLineArm(token, t, sp, st) ==
    LET pp == IF token \in PayloadDirectives THEN TRUE ELSE st.in_preprocessor
        line_breaks == FindRE1(t, 0)
        line_continuations == FindRE2(t, 0)
    IN  IF line_continuations # << >>
        THEN [in_preprocessor |-> pp,
              line_number |-> st.line_number + Len(line_breaks),
              line_span_start |-> sp.start + Last(line_continuations).end]
        ELSE IF line_breaks # << >>
        THEN [in_preprocessor |-> FALSE,
              line_number |-> st.line_number + Len(line_breaks),
              line_span_start |-> sp.start + Last(line_breaks).start]
        ELSE [st EXCEPT !.in_preprocessor = pp]

DirectiveArm_keeps_flag(st) == st

\* next(): the arm of the 14 ordinary directive keywords
DirectiveArm(st) == [st EXCEPT !.in_preprocessor = TRUE]

LineContinuationArm_clears_flag(sp, st) ==
    [st EXCEPT !.in_preprocessor = FALSE, !.line_number = @ + 1,
               !.line_span_start = sp.end]

LineContinuationArm_keeps_line(sp, st) ==
    [st EXCEPT !.line_span_start = sp.end]

LineContinuationArm_keeps_line_start(sp, st) ==
    [st EXCEPT !.line_number = @ + 1]

\* next(): the arm of Token::LineContinuation
LineContinuationArm(sp, st) ==
    [st EXCEPT !.line_number = @ + 1, !.line_span_start = sp.end]

NewlineArm_keeps_flag(sp, st) ==
    [st EXCEPT !.line_number = @ + 1, !.line_span_start = sp.end]

NewlineArm_keeps_line(sp, st) ==
    [st EXCEPT !.in_preprocessor = FALSE, !.line_span_start = sp.end]

NewlineArm_past_end(sp, st) ==
    [st EXCEPT !.in_preprocessor = FALSE, !.line_number = @ + 1,
               !.line_span_start = sp.end + 1]

\* next(): the arm of Token::Newline
NewlineArm(sp, st) ==
    [st EXCEPT !.in_preprocessor = FALSE, !.line_number = @ + 1,
               !.line_span_start = sp.end]

\* next(): the match on the raw token that updates the flag and the line fields
MatchArms(token, t, sp, st) ==
    CASE token \in {"StringLiteral", "BlockComment"} \cup PayloadDirectives ->
             MultiLineArm(token, t, sp, st)
      [] token \in OrdinaryDirectives -> DirectiveArm(st)
      [] token = "LineContinuation" -> LineContinuationArm(sp, st)
      [] token = "Newline" -> NewlineArm(sp, st)
      [] OTHER -> st

ReachedEof_ignores_flag(token, e) == token = None

ReachedEof_never(token, e) == FALSE

\* next(): token.is_none() && !self.eof
ReachedEof(token, e) == token = None /\ ~e

Observed(sym, sp, flag) == [sym |-> sym, span |-> sp, in_pp |-> flag]

\* the Symbol that next() builds, and the bookkeeping of self.delta(&range)
Yield(kind, txt, range, sp, flag) ==
    \E sym \in { [token_kind |-> kind, text |-> txt, range |-> range,
                  delta |-> delta(range, prev_range)] } :
        /\ prev_range' = Some(range)
        /\ ret' = Some(sym)
        /\ out' = Append(out, Observed(sym, sp, flag))

next_eof_at_last_match ==
    /\ ReachedEof(LexerNext(source, span.end), eof)
    /\ eof' = TRUE
    /\ \E col \in { SubU32(span.end, line_span_start) } :
           Yield(Eof, None, Range(Pos(line_number, col), Pos(line_number, col)),
                 [start |-> Len(source), end |-> Len(source)],
                 InPreprocessor(in_preprocessor, TRUE))
    /\ UNCHANGED << source, span, line_number, line_span_start, in_preprocessor, arg, res >>

\* next(), the end-of-input path: the matcher is exhausted and Eof is not yet signalled
next_eof ==
    /\ ReachedEof(LexerNext(source, span.end), eof)
    /\ eof' = TRUE
    /\ \E col \in { SubU32(Len(source), line_span_start) } :
           Yield(Eof, None, Range(Pos(line_number, col), Pos(line_number, col)),
                 [start |-> Len(source), end |-> Len(source)],
                 InPreprocessor(in_preprocessor, TRUE))
    /\ UNCHANGED << source, span, line_number, line_span_start, in_preprocessor, arg, res >>

\* next(), after the end: `let token = token?` returns None
next_none ==
    /\ \E tk \in { LexerNext(source, span.end) } :
           ~ReachedEof(tk, eof) /\ tk = None
    /\ ret' = None
    /\ UNCHANGED << source, span, line_number, line_span_start, in_preprocessor,
                    prev_range, eof, out, arg, res >>

\* next(), the path of a raw token
next_symbol ==
    /\ \E tk \in { LexerNext(source, span.end) } :
         /\ ~ReachedEof(tk, eof)
         /\ tk # None
         /\ \E sp \in { [start |-> tk.start, end |-> tk.end] } :
            \E slice \in { Slice(source, tk.start, tk.end) } :
            \E st \in { MatchArms(tk.token, slice, sp,
                                  [in_preprocessor |-> in_preprocessor,
                                   line_number |-> line_number,
                                   line_span_start |-> line_span_start]) } :
              /\ span' = sp
              /\ in_preprocessor' = st.in_preprocessor
              /\ line_number' = st.line_number
              /\ line_span_start' = st.line_span_start
              /\ Yield(TryFrom(tk.token),
                       IF CapturesText(tk.token) THEN Some(slice) ELSE None,
                       Range(Pos(line_number, SubU32(sp.start, line_span_start)),
                             Pos(st.line_number, SubU32(sp.end, st.line_span_start))),
                       sp, InPreprocessor(st.in_preprocessor, eof))
    /\ UNCHANGED << source, eof, arg, res >>

-----------------------------------------------------------------------------
(* Inputs of the scanner: nothing, #define or #pragma, then at most MaxPieces *)
(* pieces; or one of the other directive keywords, then fewer pieces         *)

MaxPieces == 3

Prefixes == { << >>, KwDefine, KwPragma }

Pieces == { KwDefine, << "a" >>, << "1" >>, << " " >>, << LF >>, << CR >>, << BS >>,
            << BS, LF >>, << "/", "*" >>, << "*", "/" >>, << QUOTE >>, << "@" >> }

OtherKeywords ==
    { OrdinaryKeywords[d] : d \in DOMAIN OrdinaryKeywords \ {"MDefine"} }
    \cup { KwInclude, KwTryinclude, KwLine }

\* source is an input: a prefix and at most MaxPieces pieces, or another
\* directive keyword and fewer pieces
IsInput ==
    \/ \E pre \in Prefixes : \E n \in 0..MaxPieces : \E ps \in [1..n -> Pieces] :
           source = pre \o Concat(ps)
    \/ \E pre \in OtherKeywords : \E n \in 0..(MaxPieces - 1) : \E ps \in [1..n -> Pieces] :
           source = pre \o Concat(ps)

\* SourcepawnLexer::new
Init ==
    /\ IsInput
    /\ span = [start |-> 0, end |-> 0]
    /\ line_number = 0
    /\ line_span_start = 0
    /\ in_preprocessor = FALSE
    /\ prev_range = None
    /\ eof = FALSE
    /\ ret = NotCalled
    /\ out = << >>
    /\ arg = None
    /\ res = None

Next == next_eof \/ next_none \/ next_symbol

Spec == Init /\ [][Next]_vars

-----------------------------------------------------------------------------
(* Symbol accessors: inline_text() and to_int() *)

\* str::replace: the matches of pat from left to right, none overlapping
RECURSIVE ReplaceFrom(_, _, _, _)
ReplaceFrom(s, o, pat, to) ==
    IF o >= Len(s) THEN << >>
    ELSE IF HasPrefix(s, o, pat) THEN to \o ReplaceFrom(s, o + Len(pat), pat, to)
    ELSE << s[o + 1] >> \o ReplaceFrom(s, o + 1, pat, to)

Replace(s, pat, to) == ReplaceFrom(s, 0, pat, to)

\* Symbol::inline_text
inline_text(sym) ==
    LET t == text(sym)
        k == sym.token_kind
    IN  CASE t = Panic -> Panic
          [] k.kind = "Literal" /\ k.sub \in {"StringLiteral", "CharLiteral"} ->
                 Replace(Replace(t, << BS, LF >>, << >>), << BS, CR, LF >>, << >>)
          [] k.kind = "Comment" /\ k.sub = "BlockComment" ->
                 Replace(Replace(t, << LF >>, << >>), << CR, LF >>, << >>)
          [] k.kind = "PreprocDir" /\ k.sub \in PayloadDirectives ->
                 Replace(Replace(t, << BS, LF >>, << >>), << BS, CR, LF >>, << >>)
          [] OTHER -> t

\* A u32 is held as two 16-bit limbs, value = hi * 65536 + lo: the integers of
\* the model checker end below 2^32.
Limb == 256 * 256
Zero32 == [hi |-> 0, lo |-> 0]

DigitValue(c) ==
    CASE c = "0" -> 0 [] c = "1" -> 1 [] c = "2" -> 2 [] c = "3" -> 3 [] c = "4" -> 4
      [] c = "5" -> 5 [] c = "6" -> 6 [] c = "7" -> 7 [] c = "8" -> 8 [] c = "9" -> 9
      [] c \in {"a", "A"} -> 10 [] c \in {"b", "B"} -> 11 [] c \in {"c", "C"} -> 12
      [] c \in {"d", "D"} -> 13 [] c \in {"e", "E"} -> 14 [] c \in {"f", "F"} -> 15
      [] OTHER -> 99

\* u32::checked_mul(radix) then checked_add(d): None on overflow
MulAdd(v, radix, d) ==
    LET lo2 == v.lo * radix + d
        hi2 == v.hi * radix + lo2 \div Limb
    IN  IF hi2 >= Limb THEN None ELSE Some([hi |-> hi2, lo |-> lo2 % Limb])

\* u32::from_str_radix on a string with no sign: digit by digit, Err on an empty
\* string, on a character that is no digit of the radix, and on overflow
RECURSIVE ParseFrom(_, _, _, _)
ParseFrom(buf, i, radix, acc) ==
    IF i > Len(buf) THEN Some(acc)
    ELSE IF DigitValue(buf[i]) >= radix THEN None
    ELSE IF MulAdd(acc, radix, DigitValue(buf[i])) = None THEN None
    ELSE ParseFrom(buf, i + 1, radix, MulAdd(acc, radix, DigitValue(buf[i])).some)

from_str_radix(buf, radix) ==
    IF buf = << >> THEN None ELSE ParseFrom(buf, 1, radix, Zero32)

\* char::is_numeric, on the ASCII characters of the model
is_numeric(c) == c \in Digits

\* the loop of the Hex, Binary and Octodecimal arms: the numeric characters
\* that follow the first 'x'
RECURSIVE AfterX(_, _, _)
AfterX(t, i, x_reached) ==
    IF i > Len(t) THEN << >>
    ELSE IF ~x_reached THEN AfterX(t, i + 1, t[i] = "x")
    ELSE (IF is_numeric(t[i]) THEN << t[i] >> ELSE << >>) \o AfterX(t, i + 1, TRUE)

IntegerKeeps_all_but_underscore(c) == c # "_"

\* the loop of the Integer arm: which characters are pushed to buf
IntegerKeeps(c) == is_numeric(c)

\* ch as u32, for the characters of the Char literal texts of the model
CodePoint(c) ==
    CASE c = LF -> 10 [] c = CR -> 13 [] c = "'" -> 39 [] c = BS -> 92
      [] c = "a" -> 97 [] c = "c" -> 99 [] c = "n" -> 110
      [] c = CharMax -> 1114111

\* u32 + u32: the sum modulo 2^32, and whether an addition passed u32::MAX
AddU32(a, b) ==
    LET lo2 == a.lo + b.lo
        hi2 == a.hi + b.hi + lo2 \div Limb
    IN  [hi |-> hi2 % Limb, lo |-> lo2 % Limb,
         overflow |-> a.overflow \/ b.overflow \/ hi2 >= Limb]

RECURSIVE SumCodePoints_unquoted(_, _, _)
SumCodePoints_unquoted(t, i, j) ==
    IF i > j THEN [hi |-> 0, lo |-> 0, overflow |-> FALSE]
    ELSE IF i = j
    THEN (IF t[i] = "'" THEN [hi |-> 0, lo |-> 0, overflow |-> FALSE]
          ELSE [hi |-> CodePoint(t[i]) \div Limb, lo |-> CodePoint(t[i]) % Limb,
                overflow |-> FALSE])
    ELSE AddU32(SumCodePoints_unquoted(t, i, (i + j) \div 2),
                SumCodePoints_unquoted(t, (i + j) \div 2 + 1, j))

\* the loop of the Char arm, `out += ch as u32` over the characters i..j of the
\* text.  The loop adds from left to right; here the additions are grouped in
\* halves, which gives the same sum modulo 2^32, and, no term being negative,
\* passes u32::MAX exactly when an addition of the loop does.
RECURSIVE SumCodePoints(_, _, _)
SumCodePoints(t, i, j) ==
    IF i > j THEN [hi |-> 0, lo |-> 0, overflow |-> FALSE]
    ELSE IF i = j
    THEN [hi |-> CodePoint(t[i]) \div Limb, lo |-> CodePoint(t[i]) % Limb,
          overflow |-> FALSE]
    ELSE AddU32(SumCodePoints(t, i, (i + j) \div 2),
                SumCodePoints(t, (i + j) \div 2 + 1, j))

\* the loop of the Float arm: which characters are pushed to buf
FloatKeeps(c) == c # "_"

\* the index of the first character of s that is in cs, 0 when there is none
FirstOf(s, cs) ==
    IF \E i \in 1..Len(s) : s[i] \in cs
    THEN CHOOSE i \in 1..Len(s) : s[i] \in cs /\ \A j \in 1..(i - 1) : s[j] \notin cs
    ELSE 0

AllDigits(s) == \A i \in 1..Len(s) : s[i] \in Digits

\* the value of the digits 1..i of a short string of decimal digits
RECURSIVE Decimal(_, _)
Decimal(s, i) == IF i = 0 THEN 0 ELSE 10 * Decimal(s, i - 1) + DigitValue(s[i])

\* str::parse::<f32>: Sign? ( 'inf' | 'infinity' | 'nan' | Number ), where Number
\* is ( Digit+ | Digit+ '.' Digit* | Digit* '.' Digit+ ) Exp? and Exp is
\* 'e' Sign? Digit+.  The value read is digits * 10^exp10.  (The words are
\* matched whatever their case; those of the model are in lower case.)
parse_f32(buf) ==
    LET signed == buf # << >> /\ buf[1] \in {"+", "-"}
        neg == buf # << >> /\ buf[1] = "-"
        body == IF signed THEN Tail(buf) ELSE buf
        e == FirstOf(body, {"e", "E"})
        num == IF e = 0 THEN body ELSE SubSeq(body, 1, e - 1)
        exp == IF e = 0 THEN << >> ELSE SubSeq(body, e + 1, Len(body))
        eneg == exp # << >> /\ exp[1] = "-"
        edigits == IF exp # << >> /\ exp[1] \in {"+", "-"} THEN Tail(exp) ELSE exp
        d == FirstOf(num, {"."})
        int == IF d = 0 THEN num ELSE SubSeq(num, 1, d - 1)
        frac == IF d = 0 THEN << >> ELSE SubSeq(num, d + 1, Len(num))
    IN  IF body \in { << "i", "n", "f" >>, << "i", "n", "f", "i", "n", "i", "t", "y" >> }
        THEN Some([class |-> "inf", neg |-> neg, digits |-> << >>, exp10 |-> 0])
        ELSE IF body = << "n", "a", "n" >>
        THEN Some([class |-> "nan", neg |-> neg, digits |-> << >>, exp10 |-> 0])
        ELSE IF /\ AllDigits(int) /\ AllDigits(frac)
                /\ Len(int) + Len(frac) >= 1
                /\ e # 0 => (edigits # << >> /\ AllDigits(edigits))
        THEN Some([class |-> "number", neg |-> neg, digits |-> int \o frac,
                   exp10 |-> (IF eneg THEN 0 - Decimal(edigits, Len(edigits))
                              ELSE Decimal(edigits, Len(edigits))) - Len(frac)])
        ELSE None

MaxU32 == [hi |-> Limb - 1, lo |-> Limb - 1]

\* v * 10^k, u32::MAX when it passes u32::MAX
RECURSIVE TimesTen(_, _)
TimesTen(v, k) ==
    IF k = 0 \/ v = Zero32 THEN v
    ELSE IF MulAdd(v, 10, 0) = None THEN MaxU32
    ELSE TimesTen(MulAdd(v, 10, 0).some, k - 1)

\* f32::trunc and then `as u32`, a saturating cast: NaN and the negative values
\* give 0, the values past u32::MAX give u32::MAX.  The values of the texts of
\* the model are exact in an f32 or lie past u32::MAX, so the rounding of the
\* parse changes no result.
trunc_as_u32(f) ==
    IF f.class = "nan" \/ f.neg THEN Zero32
    ELSE IF f.class = "inf" THEN MaxU32
    ELSE IF f.exp10 >= 0
    THEN (IF ParseFrom(f.digits, 1, 10, Zero32) = None THEN MaxU32
          ELSE TimesTen(ParseFrom(f.digits, 1, 10, Zero32).some, f.exp10))
    ELSE IF Len(f.digits) + f.exp10 <= 0 THEN Zero32
    ELSE IF ParseFrom(SubSeq(f.digits, 1, Len(f.digits) + f.exp10), 1, 10, Zero32) = None
    THEN MaxU32
    ELSE ParseFrom(SubSeq(f.digits, 1, Len(f.digits) + f.exp10), 1, 10, Zero32).some

\* Literal::to_int.  overflow_checks is the build: with them (a debug build) an
\* addition that passes u32::MAX panics, without them (a release build) it wraps.
literal_to_int(lit, t, overflow_checks) ==
    CASE lit = "IntegerLiteral" -> from_str_radix(SelectSeq(t, IntegerKeeps), 10)
      [] lit = "BinaryLiteral" -> from_str_radix(AfterX(t, 1, FALSE), 2)
      [] lit = "OctodecimalLiteral" -> from_str_radix(AfterX(t, 1, FALSE), 8)
      [] lit = "HexLiteral" -> from_str_radix(AfterX(t, 1, FALSE), 16)
      [] lit = "FloatLiteral" ->
             IF parse_f32(SelectSeq(t, FloatKeeps)) = None THEN None
             ELSE Some(trunc_as_u32(parse_f32(SelectSeq(t, FloatKeeps)).some))
      [] lit = "CharLiteral" ->
             IF SumCodePoints(t, 1, Len(t)).overflow /\ overflow_checks THEN Panicked
             ELSE Some([hi |-> SumCodePoints(t, 1, Len(t)).hi,
                        lo |-> SumCodePoints(t, 1, Len(t)).lo])
      [] lit = "StringLiteral" -> None

\* Symbol::to_int
to_int(sym, overflow_checks) ==
    IF sym.token_kind.kind = "Literal"
    THEN (IF text(sym) = Panic THEN Panicked
          ELSE literal_to_int(sym.token_kind.sub, text(sym), overflow_checks))
    ELSE None

\* impl Hash for Symbol: what is fed to the hasher, in order
hash(sym) ==
    IF text(sym) = Panic THEN Panic
    ELSE << sym.token_kind, text(sym), sym.range.start.line, sym.range.start.character,
            sym.range.end.line, sym.range.end.character, sym.delta >>

eq_stored_text(a, b) ==
    /\ a.token_kind = b.token_kind
    /\ a.text = b.text
    /\ a.range = b.range
    /\ a.delta = b.delta

\* impl PartialEq for Symbol: the && chain stops at the first false operand
eq(a, b) ==
    IF a.token_kind # b.token_kind THEN FALSE
    ELSE IF text(a) = Panic \/ text(b) = Panic THEN Panic
    ELSE /\ text(a) = text(b)
         /\ a.range = b.range
         /\ a.delta = b.delta

-----------------------------------------------------------------------------
(* Calls of the accessors on symbols built with Symbol::new *)

MaxTextLen == 4
MaxDigits == 3

TextChars == {BS, LF, CR, "a"}
NumChars == {"0", "1", "9", "F", "x", "b", "_"}

TextKinds == { [kind |-> "Literal", sub |-> "StringLiteral"],
               [kind |-> "Literal", sub |-> "CharLiteral"],
               [kind |-> "Comment", sub |-> "BlockComment"],
               [kind |-> "Comment", sub |-> "LineComment"],
               [kind |-> "PreprocDir", sub |-> "MPragma"],
               [kind |-> "PreprocDir", sub |-> "MInclude"],
               [kind |-> "PreprocDir", sub |-> "MTryinclude"],
               [kind |-> "Identifier", sub |-> ""] }

NumKinds == { [kind |-> "Literal", sub |-> "IntegerLiteral"],
              [kind |-> "Literal", sub |-> "HexLiteral"],
              [kind |-> "Literal", sub |-> "BinaryLiteral"],
              [kind |-> "Literal", sub |-> "OctodecimalLiteral"] }

LongNumTexts ==
    { << "1", "0", "_", "0", "0", "0", "_", "0", "0", "0" >>,
      << "4", "2", "9", "4", "9", "6", "7", "2", "9", "5" >>,
      << "4", "2", "9", "4", "9", "6", "7", "2", "9", "6" >>,
      << "0", "0", "4", "2", "9", "4", "9", "6", "7", "2", "9", "5" >>,
      << "9", "9", "9", "9", "9", "9", "9", "9", "9", "9", "9" >>,
      << "0", "x", "F", "F", "F", "F", "F", "F", "F", "F" >>,
      << "0", "x", "1", "2", "3", "4", "5", "6", "7", "8", "9" >>,
      << "0", "b", "1", "0", "1", "0" >>,
      << "0", "o", "1", "7" >> }

CharTexts == { << "'", "c", "'" >>, << "'", "a", "'" >>, << "'", BS, "n", "'" >>,
               << "'", BS, "'", "'" >>, << "'", "'" >> }

FloatKind == [kind |-> "Literal", sub |-> "FloatLiteral"]

FloatChars == {"1", "9", ".", "e", "_", "-"}

FloatTexts == { << "i", "n", "f" >>, << "n", "a", "n" >>, << "-", "i", "n", "f" >>,
                << "1", "e", "1", "0" >>, << "-", "1", ".", "9" >>,
                << "1", ".", "9", "e", "1" >>, << "1", "_", "9", ".", "9", "9" >>,
                << "1", ".", "9", ".", "1" >>, << "a" >> }


ZeroRange == Range(Pos(0, 0), Pos(0, 0))

\* Symbol::new
SymbolNew(kind, t) ==
    [token_kind |-> kind, text |-> Some(t), range |-> ZeroRange,
     delta |-> [line |-> 0, col |-> 0]]

\* arg is a symbol with a stored text: a text kind with a text of at most
\* MaxTextLen characters or a Char literal text, or a numeric kind with at most
\* MaxDigits characters or one of the long texts
IsTextSymbol ==
    \/ \E k \in TextKinds : \E n \in 0..MaxTextLen : \E t \in [1..n -> TextChars] :
           arg = SymbolNew(k, t)
    \/ \E k \in TextKinds : \E t \in CharTexts : arg = SymbolNew(k, t)
    \/ \E k \in NumKinds : \E n \in 0..MaxDigits : \E t \in [1..n -> NumChars] :
           arg = SymbolNew(k, t)
    \/ \E k \in NumKinds : \E t \in LongNumTexts : arg = SymbolNew(k, t)
    \/ \E n \in 0..MaxDigits : \E t \in [1..n -> FloatChars] : arg = SymbolNew(FloatKind, t)
    \/ \E t \in FloatTexts : arg = SymbolNew(FloatKind, t)

\* symbols to compare: kinds with a fixed text and kinds with a stored one, each
\* with and without a stored text, at two ranges and two deltas
EqKinds == { [kind |-> "Newline", sub |-> ""],
             [kind |-> "Operator", sub |-> "Plus"],
             [kind |-> "Operator", sub |-> "Star"],
             [kind |-> "Identifier", sub |-> ""],
             [kind |-> "PreprocDir", sub |-> "MDefine"],
             [kind |-> "PreprocDir", sub |-> "MPragma"] }

EqTexts == { None, Some(<< "a" >>), Some(<< "+" >>) }

EqRanges == { ZeroRange, Range(Pos(0, 0), Pos(0, 1)) }

EqDeltas == { [line |-> 0, col |-> 0], [line |-> 0, col |-> 1] }

EqSymbols == { [token_kind |-> k, text |-> t, range |-> r, delta |-> d] :
               k \in EqKinds, t \in EqTexts, r \in EqRanges, d \in EqDeltas }

InitSymbol ==
    /\ source = << >>
    /\ span = [start |-> 0, end |-> 0]
    /\ line_number = 0
    /\ line_span_start = 0
    /\ in_preprocessor = FALSE
    /\ prev_range = None
    /\ eof = FALSE
    /\ ret = NotCalled
    /\ out = << >>
    /\ (IsTextSymbol \/ arg \in EqSymbols)
    /\ res = NotCalled

call_text ==
    /\ res = NotCalled
    /\ res' = [op |-> "text", value |-> text(arg)]
    /\ UNCHANGED << lexer_vars, arg >>

call_inline_text ==
    /\ res = NotCalled
    /\ res' = [op |-> "inline_text", value |-> inline_text(arg)]
    /\ UNCHANGED << lexer_vars, arg >>

call_to_int ==
    /\ res = NotCalled
    /\ \E overflow_checks \in BOOLEAN :
           res' = [op |-> "to_int", value |-> to_int(arg, overflow_checks)]
    /\ UNCHANGED << lexer_vars, arg >>

\* a == other, and the hashes of both
call_eq ==
    /\ res = NotCalled
    /\ arg \in EqSymbols
    /\ \E other \in EqSymbols :
           res' = [op |-> "eq", other |-> other, value |-> eq(arg, other),
                   hash_self |-> hash(arg), hash_other |-> hash(other)]
    /\ UNCHANGED << lexer_vars, arg >>

NextSymbol == call_text \/ call_inline_text \/ call_to_int \/ call_eq

SymbolSpec == InitSymbol /\ [][NextSymbol]_vars

-----------------------------------------------------------------------------
(* Calls of to_int() on Char literals long enough for the sum of their code *)
(* points to pass u32::MAX                                                   *)

MaxLongLen == 3900

\* arg is a Char literal: between two quotes, one of the hundred and one
\* longest runs of the character U+10FFFF of at most MaxLongLen characters
IsLongChar ==
    \E n \in (MaxLongLen - 100)..MaxLongLen :
        arg = SymbolNew([kind |-> "Literal", sub |-> "CharLiteral"],
                        << "'" >> \o [i \in 1..n |-> CharMax] \o << "'" >>)

InitLongChar ==
    /\ source = << >>
    /\ span = [start |-> 0, end |-> 0]
    /\ line_number = 0
    /\ line_span_start = 0
    /\ in_preprocessor = FALSE
    /\ prev_range = None
    /\ eof = FALSE
    /\ ret = NotCalled
    /\ out = << >>
    /\ IsLongChar
    /\ res = NotCalled

NextLongChar == call_to_int

LongCharSpec == InitLongChar /\ [][NextLongChar]_vars

-----------------------------------------------------------------------------
(* Properties of the scanner.  out[i] is the i-th symbol yielded, with the span *)
(* of its raw match and in_preprocessor() as observed right after the pull.     *)

KindOf(o) == o.sym.token_kind.kind
SubOf(o) == o.sym.token_kind.sub
IsEof(o) == KindOf(o) = "Eof"
IsNewline(o) == KindOf(o) = "Newline"
Introduces(o) ==
    KindOf(o) = "PreprocDir" /\ SubOf(o) \in OrdinaryDirectives \cup PayloadDirectives

\* C1: the yielded sequence holds one Eof symbol, it is the last one, every call
\* of next() after it returns None, and next() never returns None before it.
C1_EofOnceAndLast ==
    /\ \A i \in 1..Len(out) : IsEof(out[i]) => i = Len(out)
    /\ ret = None => (out # << >> /\ IsEof(out[Len(out)]))
    /\ (out # << >> /\ IsEof(out[Len(out)])) => ret \in {None, Some(out[Len(out)].sym)}
    /\ (ret # None /\ ret # NotCalled) => (out # << >> /\ ret = Some(out[Len(out)].sym))

\* C1, reached: Eof was yielded after other symbols and a later call returned None.
C1_Witness ==
    /\ ret = None
    /\ Len(out) >= 3
    /\ IsEof(out[Len(out)])

\* C2 as stated: in_preprocessor() after a pull is true from a directive-introducing
\* symbol through the Newline symbol that ends the directive, that Newline
\* included, and false after every other symbol.
C2_FlagThroughNewline ==
    \A i \in 1..Len(out) :
        out[i].in_pp =
            (/\ ~IsEof(out[i])
             /\ \E j \in 1..i : /\ Introduces(out[j])
                                /\ \A k \in j..(i - 1) : ~IsNewline(out[k]))

HasLineFeed(t) == \E i \in 1..Len(t) : t[i] = LF
HasEscapedBreak(t) ==
    \E i \in 1..Len(t) :
        /\ t[i] = BS
        /\ \/ (i + 1 <= Len(t) /\ t[i + 1] = LF)
           \/ (i + 2 <= Len(t) /\ t[i + 1] = CR /\ t[i + 2] = LF)

\* the symbols after which the flag is false whatever it was
EndsDirective(o) ==
    \/ IsNewline(o)
    \/ /\ \/ (KindOf(o) = "Literal" /\ SubOf(o) = "StringLiteral")
          \/ (KindOf(o) = "Comment" /\ SubOf(o) = "BlockComment")
          \/ (KindOf(o) = "PreprocDir" /\ SubOf(o) \in PayloadDirectives)
       /\ HasLineFeed(o.sym.text.some)
       /\ ~HasEscapedBreak(o.sym.text.some)

\* C2, amended: in_preprocessor() after a pull is true from a directive-introducing
\* symbol up to, and not including, the first symbol that is a Newline or a
\* String literal / Block comment / payload directive whose text holds a line
\* feed and no escaped line break; it is false after that symbol, after every
\* symbol outside such a stretch, and after Eof.
C2_FlagUpToLineEnd ==
    \A i \in 1..Len(out) :
        out[i].in_pp =
            (/\ ~IsEof(out[i])
             /\ \E j \in 1..i : /\ Introduces(out[j])
                                /\ \A k \in j..i : ~EndsDirective(out[k]))

\* C2, reached: a directive keyword, symbols with the flag true, then its Newline
\* with the flag false, and Eof.
C2_Witness ==
    /\ eof
    /\ \E i \in 1..Len(out) : \E j \in (i + 1)..Len(out) :
          /\ Introduces(out[i]) /\ out[i].in_pp
          /\ \A k \in i..(j - 1) : out[k].in_pp
          /\ j > i + 1
          /\ IsNewline(out[j]) /\ ~out[j].in_pp

Spaces(n) == [k \in 1..n |-> " "]

\* The source rebuilt from the symbols: before each symbol the gap its delta
\* records, then its text().  The reading most favourable to the claim: a gap
\* is that many blanks, the gap before the first symbol (whose delta is zero) is
\* its start column, and the Eof symbol only marks the end.
RECURSIVE RebuildFrom(_, _)
RebuildFrom(os, i) ==
    IF i > Len(os) THEN << >>
    ELSE Spaces(IF i = 1 THEN os[i].sym.range.start.character ELSE os[i].sym.delta.col)
         \o (IF IsEof(os[i]) THEN << >> ELSE text(os[i].sym))
         \o RebuildFrom(os, i + 1)

\* C3 as stated: once Eof is yielded, the texts of the symbols with the gaps of
\* their deltas re-inserted are the input.
C3_RoundTrip == eof => RebuildFrom(out, 1) = source

PosLe(p, q) == p.line < q.line \/ (p.line = q.line /\ p.character <= q.character)

\* C4: every range has start <= end, every symbol starts at or after the end of
\* the symbol before it, and Eof alone has zero length.
C4_RangesOrdered ==
    \A i \in 1..Len(out) :
        LET r == out[i].sym.range
        IN  /\ r.start.character >= 0 /\ r.end.character >= 0
            /\ PosLe(r.start, r.end)
            /\ i > 1 => PosLe(out[i - 1].sym.range.end, r.start)
            /\ IsEof(out[i]) <=> r.start = r.end

\* C4, reached: a symbol that starts past column 0, spans lines and is followed
\* by a symbol at its end.
C4_Witness ==
    \E i \in 1..Len(out) :
        /\ i + 1 <= Len(out)
        /\ out[i].sym.range.start.character > 0
        /\ out[i].sym.range.end.line > out[i].sym.range.start.line
        /\ out[i].sym.range.end.character > 0
        /\ out[i + 1].sym.range.start = out[i].sym.range.end

\* C5: the first symbol's delta is (0, 0); the delta of every later symbol, Eof
\* included, is its start minus the end of the symbol yielded just before.
C5_DeltaFromPreviousEnd ==
    \A i \in 1..Len(out) :
        out[i].sym.delta =
            IF i = 1 THEN [line |-> 0, col |-> 0]
            ELSE [line |-> out[i].sym.range.start.line - out[i - 1].sym.range.end.line,
                  col |-> out[i].sym.range.start.character
                          - out[i - 1].sym.range.end.character]

\* C5, reached: leading blanks before the first symbol (delta zero) and a gap of
\* one before the second.
C5_Witness ==
    /\ Len(out) >= 2
    /\ source[1] = " "
    /\ out[1].sym.range.start.character > 0
    /\ out[1].sym.delta = [line |-> 0, col |-> 0]
    /\ out[2].sym.delta = [line |-> 0, col |-> 1]

\* C7 as stated: a slice the matcher cannot classify is yielded as an Unknown
\* symbol whose text() is that slice.
C7_UnknownCarriesSlice ==
    \A i \in 1..Len(out) :
        KindOf(out[i]) = "Unknown" =>
            text(out[i].sym) = Slice(source, out[i].span.start, out[i].span.end)

-----------------------------------------------------------------------------
(* Properties of the accessors.  arg is the symbol, res the call and its result. *)

Called(op) == res # NotCalled /\ res.op = op
ArgKind == arg.token_kind.kind
ArgSub == arg.token_kind.sub
ArgText == arg.text.some

\* C6 as stated: inline_text() of a String literal, Char literal, #pragma,
\* #include or #tryinclude symbol holds no backslash-newline and no
\* backslash-CR-LF, whatever the stored text; inline_text() of a Block comment
\* holds no newline.
C6_InlineTextIsJoined ==
    Called("inline_text") =>
        /\ (\/ (ArgKind = "Literal" /\ ArgSub \in {"StringLiteral", "CharLiteral"})
            \/ (ArgKind = "PreprocDir" /\ ArgSub \in PayloadDirectives))
           => ~HasEscapedBreak(res.value)
        /\ (ArgKind = "Comment" /\ ArgSub = "BlockComment") => ~HasLineFeed(res.value)

\* the value of a short digit string in a radix, as an integer
RECURSIVE IntVal(_, _)
IntVal(ds, radix) ==
    IF ds = << >> THEN 0
    ELSE IntVal(SubSeq(ds, 1, Len(ds) - 1), radix) * radix + DigitValue(ds[Len(ds)])

AsU32(n) == [hi |-> n \div Limb, lo |-> n % Limb]

\* t is "0", the marker, then one to most digits of the radix
HasForm(t, marker, radix, most) ==
    /\ Len(t) >= 3 /\ Len(t) <= most + 2
    /\ t[1] = "0" /\ t[2] = marker
    /\ \A i \in 3..Len(t) : DigitValue(t[i]) < radix

\* the value of at most 8 hex digits: the last four are the low limb
HexValue(ds) ==
    IF Len(ds) <= 4 THEN [hi |-> 0, lo |-> IntVal(ds, 16)]
    ELSE [hi |-> IntVal(SubSeq(ds, 1, Len(ds) - 4), 16),
          lo |-> IntVal(SubSeq(ds, Len(ds) - 3, Len(ds)), 16)]

\* C8 as stated: to_int on a Hex literal is the base-16 value of all the digits
\* after the 'x', the digits a-f and A-F included ("0x1F" gives 31).
C8_HexValue ==
    (Called("to_int") /\ ArgKind = "Literal" /\ ArgSub = "HexLiteral"
        /\ HasForm(ArgText, "x", 16, 8))
    => res.value = Some(HexValue(SubSeq(ArgText, 3, Len(ArgText))))

\* C9 as stated: to_int on a Binary literal 0b... is the base-2 value of the digits
\* after its marker, and on an Octal literal 0o... the base-8 value.
C9_BinaryOctalValue ==
    /\ (Called("to_int") /\ ArgKind = "Literal" /\ ArgSub = "BinaryLiteral"
           /\ HasForm(ArgText, "b", 2, 30))
       => res.value = Some(AsU32(IntVal(SubSeq(ArgText, 3, Len(ArgText)), 2)))
    /\ (Called("to_int") /\ ArgKind = "Literal" /\ ArgSub = "OctodecimalLiteral"
           /\ HasForm(ArgText, "o", 8, 10))
       => res.value = Some(AsU32(IntVal(SubSeq(ArgText, 3, Len(ArgText)), 8)))

IsDecimalDigit(c) == c \in {"0", "1", "2", "3", "4", "5", "6", "7", "8", "9"}

RECURSIVE StripZeros(_)
StripZeros(ds) ==
    IF ds # << >> /\ Head(ds) = "0" THEN StripZeros(Tail(ds)) ELSE ds

\* ds, of the same length as m, is the greater decimal number
RECURSIVE DecGreater(_, _)
DecGreater(ds, m) ==
    /\ ds # << >>
    /\ \/ DigitValue(Head(ds)) > DigitValue(Head(m))
       \/ (Head(ds) = Head(m) /\ DecGreater(Tail(ds), Tail(m)))

MaxU32Decimal == << "4", "2", "9", "4", "9", "6", "7", "2", "9", "5" >>

ExceedsU32(ds) ==
    \/ Len(ds) > Len(MaxU32Decimal)
    \/ (Len(ds) = Len(MaxU32Decimal) /\ DecGreater(ds, MaxU32Decimal))

DecimalDigits == << "0", "1", "2", "3", "4", "5", "6", "7", "8", "9" >>

\* the decimal digits of a u32 held in limbs, without leading zeros (none for 0)
RECURSIVE ToDecimal(_)
ToDecimal(v) ==
    IF v = Zero32 THEN << >>
    ELSE LET mid == (v.hi % 10) * Limb + v.lo
         IN  ToDecimal([hi |-> v.hi \div 10, lo |-> mid \div 10])
             \o << DecimalDigits[(mid % 10) + 1] >>

\* C10: to_int on an Integer literal drops every character that is no digit and
\* gives the base-10 value of the digits left; absent when none is left or when
\* the value exceeds the 32-bit unsigned range.
C10_IntegerValue ==
    (Called("to_int") /\ ArgKind = "Literal" /\ ArgSub = "IntegerLiteral") =>
        LET ds == SelectSeq(ArgText, IsDecimalDigit)
        IN  IF ds = << >> \/ ExceedsU32(StripZeros(ds))
            THEN res.value = None
            ELSE /\ res.value # None
                 /\ ToDecimal(res.value.some) = StripZeros(ds)

\* C10, reached: "10_000_000" decoded to 10000000 = 152 * 65536 + 38528.
C10_Witness ==
    /\ Called("to_int")
    /\ ArgKind = "Literal" /\ ArgSub = "IntegerLiteral"
    /\ ArgText = << "1", "0", "_", "0", "0", "0", "_", "0", "0", "0" >>
    /\ res.value = Some([hi |-> 152, lo |-> 38528])

CountOf(t, c) == Cardinality({ i \in 1..Len(t) : t[i] = c })

\* C11: to_int on a Char literal is the sum of the code points of all the
\* characters of its text, the quotes included; on a String literal and on a
\* symbol that is no Literal it is absent.
C11_CharSumStringAbsent ==
    Called("to_int") =>
        /\ (ArgKind = "Literal" /\ ArgSub = "CharLiteral") =>
               res.value = Some(AsU32(10 * CountOf(ArgText, LF) + 13 * CountOf(ArgText, CR)
                                      + 39 * CountOf(ArgText, "'") + 92 * CountOf(ArgText, BS)
                                      + 97 * CountOf(ArgText, "a") + 99 * CountOf(ArgText, "c")
                                      + 110 * CountOf(ArgText, "n")))
        /\ (ArgKind = "Literal" /\ ArgSub = "StringLiteral") => res.value = None
        /\ ArgKind # "Literal" => res.value = None

\* C11, reached: 'c' decoded to 39 + 99 + 39 = 177.
C11_Witness ==
    /\ Called("to_int")
    /\ ArgKind = "Literal" /\ ArgSub = "CharLiteral"
    /\ ArgText = << "'", "c", "'" >>
    /\ res.value = Some([hi |-> 0, lo |-> 177])

-----------------------------------------------------------------------------
(* Further properties of the scanner *)

IsOrdinaryDirective(o) == KindOf(o) = "PreprocDir" /\ SubOf(o) \in OrdinaryDirectives
IsPayloadDirective(o) == KindOf(o) = "PreprocDir" /\ SubOf(o) \in PayloadDirectives
IsString(o) == KindOf(o) = "Literal" /\ SubOf(o) = "StringLiteral"
IsBlockComment(o) == KindOf(o) = "Comment" /\ SubOf(o) = "BlockComment"

\* an identifier, a numeric literal, an operator, a line comment or a Block
\* comment on one line
IsPlain(o) ==
    \/ KindOf(o) \in {"Identifier", "Operator"}
    \/ (KindOf(o) = "Literal" /\ SubOf(o) \notin {"StringLiteral", "CharLiteral"})
    \/ (KindOf(o) = "Comment" /\ SubOf(o) = "LineComment")
    \/ (IsBlockComment(o) /\ ~HasLineFeed(o.sym.text.some))

\* C12: in_preprocessor() is true after the pull of each of the 14 ordinary
\* directive keywords, whatever came before, and after every pull that follows
\* it as long as only identifiers, numeric literals, operators, line comments
\* and one-line Block comments were pulled since.
C12_DirectiveSetsFlag ==
    \A i \in 1..Len(out) :
        IsOrdinaryDirective(out[i]) =>
            /\ out[i].in_pp
            /\ \A j \in (i + 1)..Len(out) :
                   (\A k \in (i + 1)..j : IsPlain(out[k])) => out[j].in_pp

\* C12, reached: #endif, then an identifier with the flag true, then the
\* Newline that clears it.
C12_Witness ==
    /\ Len(out) >= 3
    /\ SubOf(out[1]) = "MEndif" /\ out[1].in_pp
    /\ KindOf(out[2]) = "Identifier" /\ out[2].in_pp
    /\ IsNewline(out[3]) /\ ~out[3].in_pp

\* a line break (LF, or CR LF) starts at offset o of s and no backslash is before it
UnescapedBreakAt(s, o) ==
    /\ o < Len(s)
    /\ \/ (s[o + 1] = LF /\ ~(o >= 1 /\ s[o] = CR))
       \/ HasPrefix(s, o, << CR, LF >>)
    /\ ~(o >= 1 /\ s[o] = BS)

\* C13: a #pragma / #include / #tryinclude symbol has the matching kind, its
\* text() is the matched slice, which starts with the keyword, holds no
\* unescaped line break and ends at the first one (or at the end of the input);
\* the symbol after it is the Newline of that break, or Eof.
C13_PayloadIsOneSymbol ==
    \A i \in 1..Len(out) :
        IsPayloadDirective(out[i]) =>
            LET sl == Slice(source, out[i].span.start, out[i].span.end)
            IN  /\ out[i].sym.text # None
                /\ text(out[i].sym) = sl
                /\ HasPrefix(sl, 0, PayloadKeywords[SubOf(out[i])])
                /\ \A o \in 0..(Len(sl) - 1) : ~UnescapedBreakAt(sl, o)
                /\ \/ out[i].span.end = Len(source)
                   \/ UnescapedBreakAt(source, out[i].span.end)
                /\ i < Len(out) => (IsNewline(out[i + 1]) \/ IsEof(out[i + 1]))

\* C13, reached: a #pragma whose text keeps an escaped line break, followed by
\* the Newline of the unescaped one.
C13_Witness ==
    /\ Len(out) >= 2
    /\ IsPayloadDirective(out[1]) /\ SubOf(out[1]) = "MPragma"
    /\ HasEscapedBreak(text(out[1].sym))
    /\ text(out[1].sym) = Slice(source, 0, Len(source) - 1)
    /\ IsNewline(out[2])

\* C14: once Eof has been yielded, in_preprocessor() is false: as observed right
\* after the pull of Eof and in every later state, whatever the raw field holds.
C14_FalseAfterEof ==
    /\ eof => ~InPreprocessor(in_preprocessor, eof)
    /\ \A i \in 1..Len(out) : IsEof(out[i]) => ~out[i].in_pp

\* C14, reached: the input ended inside a directive with no Newline, so the raw
\* field is still true, Eof was yielded and a later call returned None.
C14_Witness ==
    /\ eof /\ in_preprocessor /\ ret = None
    /\ Len(out) >= 3
    /\ IsOrdinaryDirective(out[1])
    /\ \A i \in 1..(Len(out) - 1) : out[i].in_pp
    /\ IsEof(out[Len(out)]) /\ ~out[Len(out)].in_pp

\* C15: every symbol but Eof covers at least one character and starts at or
\* after the end of the one before, no call returns None before Eof, and Eof is
\* yielded at the latest by pull number Len(source) + 1.
C15_ScanTerminates ==
    /\ \A i \in 1..Len(out) :
           ~IsEof(out[i]) =>
               /\ out[i].span.end > out[i].span.start
               /\ out[i].span.end <= Len(source)
               /\ i > 1 => out[i].span.start >= out[i - 1].span.end
    /\ ret = None => eof
    /\ ~eof => Len(out) <= Len(source)
    /\ eof => Len(out) <= Len(source) + 1

\* C15, reached: a malformed input of which every character is a symbol of its
\* own, Eof yielded by pull number Len(source) + 1.
C15_Witness ==
    /\ eof
    /\ Len(source) >= 3
    /\ Len(out) = Len(source) + 1
    /\ \E i \in 1..Len(out) : KindOf(out[i]) = "Unknown"

-----------------------------------------------------------------------------
(* Further properties of the accessors *)

\* C16: for two symbols whose text() is defined, == is true exactly when the
\* kinds, the texts that text() gives, the ranges and the deltas are equal,
\* and two symbols that are == feed the same values to the hasher.
C16_EqIffFourEqual ==
    (Called("eq") /\ text(arg) # Panic /\ text(res.other) # Panic) =>
        /\ res.value = (/\ arg.token_kind = res.other.token_kind
                        /\ text(arg) = text(res.other)
                        /\ arg.range = res.other.range
                        /\ arg.delta = res.other.delta)
        /\ res.value => res.hash_self = res.hash_other

\* C16, reached: two Newline symbols, one built with a stored text and one
\* without, of the same range and delta, are == and hash alike.
C16_Witness ==
    /\ Called("eq")
    /\ ArgKind = "Newline" /\ res.other.token_kind = arg.token_kind
    /\ arg.text # None /\ res.other.text = None
    /\ res.value = TRUE
    /\ res.hash_self = res.hash_other

-----------------------------------------------------------------------------
(* Stored texts *)

\* the kinds whose text is the matched slice
ContentBearing(k) ==
    \/ k.kind \in {"Identifier", "Literal", "Comment"}
    \/ (k.kind = "PreprocDir" /\ k.sub \in PayloadDirectives)

\* the raw tokens the taxonomy of the model names
ModelTokens ==
    LiteralTokens \cup CommentTokens \cup OperatorTokens \cup PreprocTokens
    \cup {"Identifier", "Newline", "LineContinuation", "Unknown", "Underscore"}

\* C17: a yielded symbol stores a text exactly when its kind is Identifier, a
\* Literal, a Comment or #pragma / #include / #tryinclude; text() of a yielded
\* symbol does not panic and is the stored text when there is one.  The same
\* agreement holds token by token between what next() stores and the kind.
C17_TextStoredIffContentBearing ==
    /\ \A i \in 1..Len(out) :
           /\ (out[i].sym.text # None) <=> ContentBearing(out[i].sym.token_kind)
           /\ text(out[i].sym) # Panic
           /\ out[i].sym.text # None => text(out[i].sym) = out[i].sym.text.some
    /\ \A token \in ModelTokens : CapturesText(token) <=> ContentBearing(TryFrom(token))

\* C17, reached: a #pragma and an identifier with a stored text, a #define, a
\* Newline and Eof with none.
C17_Witness ==
    /\ eof
    /\ \E i \in 1..Len(out) : IsPayloadDirective(out[i]) /\ out[i].sym.text # None
    /\ \E i \in 1..Len(out) : KindOf(out[i]) = "Identifier" /\ out[i].sym.text # None
    /\ \E i \in 1..Len(out) : IsOrdinaryDirective(out[i]) /\ out[i].sym.text = None
    /\ \E i \in 1..Len(out) : IsNewline(out[i]) /\ out[i].sym.text = None
    /\ out[Len(out)].sym.text = None

-----------------------------------------------------------------------------
(* The flag from pull to pull *)

IsLineContinuation(o) == KindOf(o) = "LineContinuation"

\* in_preprocessor() before the i-th pull: as observed after the pull before,
\* false before the first
FlagBefore(i) == IF i = 1 THEN FALSE ELSE out[i - 1].in_pp

\* C18: the flag is false after the pull of a Newline symbol whatever it was; it
\* is after the pull of a LineContinuation symbol what it was before, and both
\* symbols end one line below their start.
C18_NewlineClearsContinuationKeeps ==
    \A i \in 1..Len(out) :
        /\ IsNewline(out[i]) =>
               /\ ~out[i].in_pp
               /\ out[i].sym.range.end.line = out[i].sym.range.start.line + 1
        /\ IsLineContinuation(out[i]) =>
               /\ out[i].in_pp = FlagBefore(i)
               /\ out[i].sym.range.end.line = out[i].sym.range.start.line + 1

\* C18, reached: inside a directive a LineContinuation kept the flag true and
\* the Newline after it made it false.
C18_Witness ==
    /\ Len(out) >= 3
    /\ \E i \in 2..(Len(out) - 1) :
          /\ FlagBefore(i) /\ IsLineContinuation(out[i]) /\ out[i].in_pp
          /\ IsNewline(out[i + 1]) /\ ~out[i + 1].in_pp
          /\ out[i + 1].sym.range.end.line = 2

\* C19 as stated: when the flag was true before a pull and is false after it,
\* the symbol pulled is a Newline or a #pragma / #include / #tryinclude symbol
\* (Eof, after which in_preprocessor() is false by definition, left aside); a
\* String literal or Block comment over several lines leaves the flag true.
C19_OnlyNewlineOrPayloadClears ==
    \A i \in 1..Len(out) :
        (FlagBefore(i) /\ ~out[i].in_pp /\ ~IsEof(out[i])) =>
            (IsNewline(out[i]) \/ IsPayloadDirective(out[i]))

\* C19, amended: when the flag was true before a pull of a symbol other than
\* Eof, it is false after the pull exactly when the symbol is a Newline or a
\* String literal / Block comment / payload directive whose text holds a line
\* feed and no escaped line break; every other symbol, a String literal or
\* Block comment with an escaped line break among them, leaves it true.
C19_OnlyLineEndsClear ==
    \A i \in 1..Len(out) :
        (FlagBefore(i) /\ ~IsEof(out[i])) =>
            (out[i].in_pp <=> ~EndsDirective(out[i]))

\* C19, reached: inside a directive a Block comment over two lines with no
\* escaped line break made the flag false.
C19_Witness ==
    \E i \in 2..Len(out) :
        /\ FlagBefore(i)
        /\ IsBlockComment(out[i])
        /\ HasLineFeed(out[i].sym.text.some)
        /\ ~HasEscapedBreak(out[i].sym.text.some)
        /\ out[i].sym.range.end.line = out[i].sym.range.start.line + 1
        /\ ~out[i].in_pp

\* the text t ends in a line break that no backslash precedes
EndsInBareBreak(t) ==
    \/ (Len(t) >= 1 /\ t[Len(t)] = LF /\ UnescapedBreakAt(t, Len(t) - 1))
    \/ (Len(t) >= 2 /\ t[Len(t)] = LF /\ t[Len(t) - 1] = CR /\ UnescapedBreakAt(t, Len(t) - 2))

\* the match of the payload symbol o ended at a line end with no backslash
\* before it: its text ends in that line break, or stops right before it
ReachedLineEnd(o) ==
    \/ EndsInBareBreak(o.sym.text.some)
    \/ UnescapedBreakAt(source, o.span.end)

-----------------------------------------------------------------------------
(* Directive payloads, and where the flag comes from *)

\* every line feed of t has a continuation marker before it: a backslash, or a
\* backslash and a carriage return
AllBreaksEscaped(t) ==
    \A p \in 1..Len(t) :
        t[p] = LF =>
            \/ (p >= 2 /\ t[p - 1] = BS)
            \/ (p >= 3 /\ t[p - 1] = CR /\ t[p - 2] = BS)

\* C21: after the pull of a #pragma / #include / #tryinclude symbol whose text
\* holds no line feed, or only line feeds with a continuation marker, the flag
\* is true, and it is true after every later pull up to the next Newline symbol
\* (Eof, after which in_preprocessor() is false, left aside).
C21_PayloadKeepsFlagUntilNewline ==
    \A i \in 1..Len(out) :
        (IsPayloadDirective(out[i]) /\ AllBreaksEscaped(out[i].sym.text.some)) =>
            /\ out[i].in_pp
            /\ \A j \in (i + 1)..Len(out) :
                   (\A k \in (i + 1)..j : ~IsNewline(out[k]) /\ ~IsEof(out[k]))
                       => out[j].in_pp

\* C21, reached: a #pragma pulled while the flag was false, whose text runs over
\* an escaped line break onto the next line: the flag is true after it, and
\* false after the Newline that follows.
C21_Witness ==
    /\ Len(out) >= 3
    /\ SubOf(out[1]) = "MPragma"
    /\ HasLineFeed(out[1].sym.text.some)
    /\ AllBreaksEscaped(out[1].sym.text.some)
    /\ out[1].sym.range.end = Pos(1, 1)
    /\ out[1].in_pp
    /\ IsNewline(out[2]) /\ ~out[2].in_pp
    /\ IsEof(out[3])

\* C22: the flag is true after a pull only if a directive keyword (one of the 14
\* ordinary ones, #pragma, #include or #tryinclude) was yielded by that pull or
\* by an earlier one with no Newline symbol since; with no directive keyword
\* in the input it is false after every pull, whatever String literals, Block
\* comments or __LINE__ tokens are pulled.
C22_FlagOnlyAfterDirective ==
    \A i \in 1..Len(out) :
        out[i].in_pp =>
            \E j \in 1..i : /\ Introduces(out[j])
                            /\ \A k \in (j + 1)..i : ~IsNewline(out[k])

\* C22, reached: an input with no directive keyword scanned to Eof, with a
\* String literal or a Block comment or __LINE__ among its symbols, and the flag
\* false after every pull.
C22_Witness ==
    /\ eof
    /\ Len(out) >= 3
    /\ \A i \in 1..Len(out) : ~Introduces(out[i]) /\ ~out[i].in_pp
    /\ \E i \in 1..Len(out) :
          \/ IsString(out[i])
          \/ IsBlockComment(out[i])
          \/ (KindOf(out[i]) = "PreprocDir" /\ SubOf(out[i]) = "MLine")

-----------------------------------------------------------------------------
(* Lines and columns *)

\* the number of line feeds of the input before offset o
LinesBefore(o) == CountOf(Slice(source, 0, o), LF)

\* C23: a Block comment whose text holds k >= 1 line feeds is one symbol with
\* the whole match as its text; its range starts on the line of the start of
\* the match and ends k lines below, and the symbol after it starts at or after
\* the end of the match, on that end line: no Newline is yielded for a line
\* break inside the comment.
C23_MultiLineCommentIsOneSymbol ==
    \A i \in 1..Len(out) :
        (IsBlockComment(out[i]) /\ HasLineFeed(out[i].sym.text.some)) =>
            LET k == CountOf(out[i].sym.text.some, LF)
                r == out[i].sym.range
            IN  /\ out[i].sym.text.some = Slice(source, out[i].span.start, out[i].span.end)
                /\ HasPrefix(out[i].sym.text.some, 0, << "/", "*" >>)
                /\ r.start.line = LinesBefore(out[i].span.start)
                /\ r.end.line = r.start.line + k
                /\ i < Len(out) =>
                       /\ out[i + 1].span.start >= out[i].span.end
                       /\ out[i + 1].sym.range.start.line = r.end.line

\* C23, reached: a Block comment over two lines after another symbol, yielded
\* with no Newline symbol, and the symbol after it on the comment's end line.
C23_Witness ==
    /\ Len(out) >= 3
    /\ \A n \in 1..Len(out) : ~IsNewline(out[n])
    /\ IsBlockComment(out[2])
    /\ CountOf(out[2].sym.text.some, LF) = 1
    /\ out[2].sym.range.start.line = 0
    /\ out[2].sym.range.end.line = 1
    /\ out[3].sym.range.start.line = 1

SliceOf(o) == Slice(source, o.span.start, o.span.end)

\* C24: a Newline or LineContinuation symbol that starts on line L ends at
\* (L + 1, 0), and a symbol that starts where it ends starts at (L + 1, 0); a
\* symbol whose match holds no line feed ends on its start line, at its start
\* column plus the length of the match.
C24_LineBreakEndsAtColumnZero ==
    \A i \in 1..Len(out) :
        LET r == out[i].sym.range
        IN  /\ (IsNewline(out[i]) \/ IsLineContinuation(out[i])) =>
                   /\ r.end = Pos(r.start.line + 1, 0)
                   /\ (i < Len(out) /\ out[i + 1].span.start = out[i].span.end) =>
                          out[i + 1].sym.range.start = Pos(r.start.line + 1, 0)
            /\ ~HasLineFeed(SliceOf(out[i])) =>
                   /\ r.end.line = r.start.line
                   /\ r.end.character =
                          r.start.character + (out[i].span.end - out[i].span.start)

\* C24, reached: a LineContinuation that starts past column 0 and ends at
\* column 0 of the next line, where the identifier after it starts and ends
\* one column further.
C24_Witness ==
    /\ Len(out) >= 3
    /\ IsLineContinuation(out[2])
    /\ out[2].sym.range = Range(Pos(0, 1), Pos(1, 0))
    /\ KindOf(out[3]) = "Identifier"
    /\ out[3].sym.range = Range(Pos(1, 0), Pos(1, 1))

\* the position (1-based) of the last line feed of t, 0 when there is none
LastLineFeed(t) ==
    IF HasLineFeed(t) THEN CHOOSE p \in 1..Len(t) :
                               t[p] = LF /\ \A q \in (p + 1)..Len(t) : t[q] # LF
    ELSE 0

\* the line feed at position p of t ends a backslash-escaped line break
EscapedLineFeed(t, p) ==
    /\ t[p] = LF
    /\ \/ (p >= 2 /\ t[p - 1] = BS)
       \/ (p >= 3 /\ t[p - 1] = CR /\ t[p - 2] = BS)

\* the position of the line feed of the last escaped line break of t
LastEscapedLineFeed(t) ==
    CHOOSE p \in 1..Len(t) :
        EscapedLineFeed(t, p) /\ \A q \in (p + 1)..Len(t) : ~EscapedLineFeed(t, q)

\* C25: the end column of a Block comment over several lines is one more than
\* the number of characters after its last line feed when its text holds no
\* escaped line break, and the number of characters after its last escaped line
\* break when it holds one; the symbol after it starts at that column plus the
\* gap between them.
C25_MultiLineCommentEndColumn ==
    \A i \in 1..Len(out) :
        (IsBlockComment(out[i]) /\ HasLineFeed(out[i].sym.text.some)) =>
            LET t == out[i].sym.text.some
                endcol == IF HasEscapedBreak(t) THEN Len(t) - LastEscapedLineFeed(t)
                          ELSE 1 + (Len(t) - LastLineFeed(t))
            IN  /\ out[i].sym.range.end.character = endcol
                /\ i < Len(out) =>
                       out[i + 1].sym.range.start.character =
                           endcol + (out[i + 1].span.start - out[i].span.end)

\* C25, reached: the comment "/*", line feed, "*/" ends at column 3, where the
\* symbol after it starts.
C25_Witness ==
    /\ Len(out) >= 2
    /\ \E i \in 1..(Len(out) - 1) :
          /\ IsBlockComment(out[i])
          /\ out[i].sym.text.some = << "/", "*", LF, "*", "/" >>
          /\ out[i].sym.range.end = Pos(out[i].sym.range.start.line + 1, 3)
          /\ out[i + 1].sym.range.start.character = 3


\* C26: once the end is signalled, the last symbol yielded is an Eof with no
\* stored text and an empty range at (line counter, input length - line start);
\* for the empty input it is (0,0)-(0,0) with delta (0,0), and after another
\* symbol its delta is (0, the number of characters between that symbol's end
\* and the end of the input).
C26_EofAtEndOfInput ==
    eof =>
        /\ Len(out) >= 1
        /\ LET e == out[Len(out)]
               p == Pos(line_number, Len(source) - line_span_start)
           IN  /\ IsEof(e)
               /\ e.sym.text = None
               /\ e.sym.range = Range(p, p)
               /\ source = << >> =>
                      /\ e.sym.range = Range(Pos(0, 0), Pos(0, 0))
                      /\ e.sym.delta = [line |-> 0, col |-> 0]
               /\ Len(out) > 1 =>
                      e.sym.delta =
                          [line |-> 0, col |-> Len(source) - out[Len(out) - 1].span.end]

\* C26, reached: after a Newline and a trailing blank, Eof is yielded at (1, 1)
\* with delta (0, 1).
C26_Witness ==
    /\ eof
    /\ Len(out) >= 2
    /\ IsNewline(out[Len(out) - 1])
    /\ line_span_start > 0
    /\ out[Len(out)].sym.range = Range(Pos(1, 1), Pos(1, 1))
    /\ out[Len(out)].sym.delta = [line |-> 0, col |-> 1]


\* C27 as stated: to_int never aborts; for every Literal kind and every text
\* it returns a value or absent.
C27_ToIntNeverAborts ==
    Called("to_int") => res.value # Panicked


\* the offset of the character after the last line feed before the offset o of
\* the input, 0 when there is none
LineStartBefore(o) ==
    IF \E p \in 1..o : source[p] = LF
    THEN CHOOSE p \in 1..o : source[p] = LF /\ \A q \in (p + 1)..o : source[q] # LF
    ELSE 0

\* C28 as stated: the start and end columns of every symbol are the true
\* columns, the number of characters between the start of the line and the
\* symbol's start and end.
C28_TrueColumns ==
    \A i \in 1..Len(out) :
        /\ out[i].sym.range.start.character =
               out[i].span.start - LineStartBefore(out[i].span.start)
        /\ out[i].sym.range.end.character =
               out[i].span.end - LineStartBefore(out[i].span.end)


C30_DeltaIsGapOnOneLine ==
    \A i \in 1..Len(out) :
        /\ out[i].sym.delta.line = 0
        /\ out[i].sym.delta.col >= 0
        /\ i > 1 => /\ out[i].sym.delta.col = out[i].span.start - out[i - 1].span.end
                    /\ out[i].sym.range.start.line = out[i - 1].sym.range.end.line

\* C30, reached: on the line after a Newline, a symbol one blank further has
\* delta (0, 1).
C30_Witness ==
    \E i \in 2..Len(out) :
        /\ IsNewline(out[i - 1])
        /\ out[i].span.start = out[i - 1].span.end + 1
        /\ out[i].sym.range.start.line = 1
        /\ out[i].sym.delta = [line |-> 0, col |-> 1]


\* C31: in every state the offset of the current line start is at most the end
\* of the last match, which is at most the length of the input; so no start
\* column, end column or Eof column is the result of a subtraction below zero.
C31_LineStartNeverPastSpan ==
    /\ line_span_start <= span.end
    /\ span.end <= Len(source)
    /\ \A i \in 1..Len(out) :
           /\ out[i].sym.range.start.character >= 0
           /\ out[i].sym.range.end.character >= 0

\* C31, reached: the input ends with a Newline, so the line start is the end of
\* the last match and the length of the input, and Eof is yielded at column 0.
C31_Witness ==
    /\ eof
    /\ Len(out) >= 2
    /\ IsNewline(out[Len(out) - 1])
    /\ line_span_start = span.end
    /\ line_span_start = Len(source)
    /\ line_span_start > 0
    /\ out[Len(out)].sym.range.start.character = 0

====
